---- MODULE Spec2Model ----
(***************************************************************************)
(* Model of the OCR web application: the request / retry / response-       *)
(* parsing pipeline, the edit form and the vCard, CSV and JSON encoders,   *)
(* the prompt builder and the image handlers (utils/ocr_processor.py,      *)
(* utils/vcard_generator.py, utils/image_handler.py,                       *)
(* utils/camera_handler.py, app.py).                                       *)
(*                                                                         *)
(* Texts are sequences of tokens.  Every token stands for one character   *)
(* of the real text except the multi-character tokens listed in           *)
(* MultiCharTokens.  The tokens are                                       *)
(*   "T"      the three backticks of a code fence                          *)
(*   "json"   the tag word json (a fence tagged json is <<"T","json">>)    *)
(*   " "      one whitespace character                                     *)
(*   "p"      one character of prose (no JSON syntax, no whitespace)       *)
(*   "{" "}"  the braces of a JSON object                                  *)
(*   "q"      a double quote                                               *)
(*   "d"      a digit                                                      *)
(*   "N"      the JSON literal null                                        *)
(*   "A"      the JSON array text ["a"]                                    *)
(*   "addr="  the member key "address": , to be followed by a string       *)
(*   "m_..."  a complete object member (key, value and its separator)      *)
(* The texts of the encoders have tokens of their own: "CRLF" and "LF"     *)
(* are line breaks, "," ":" "[" "]" ";" the punctuation, and the property  *)
(* names of a vCard line ("N:", "TEL;TYPE=WORK:", ...) one token each.     *)
(***************************************************************************)
EXTENDS Integers, Sequences, FiniteSets, TLC

\* ------------------------------------------------------------------ bounds
MaxLen == 3
MaxMembers == 2

\* --------------------------------------------------------- Python values
Null == [t |-> "null", s |-> <<>>, l |-> <<>>]
Str(chars) == [t |-> "str", s |-> chars, l |-> <<>>]
List(elems) == [t |-> "list", s |-> <<>>, l |-> elems]
Num(digits) == [t |-> "num", s |-> digits, l |-> <<>>]

\* A dict is the sequence of its items in insertion order.
DictHas(d, k) == \E i \in 1..Len(d) : d[i].k = k

DictGet(d, k) == d[CHOOSE i \in 1..Len(d) : d[i].k = k].v

DictSet(d, k, v) ==
    IF DictHas(d, k)
    THEN [i \in 1..Len(d) |-> IF d[i].k = k THEN [k |-> k, v |-> v] ELSE d[i]]
    ELSE Append(d, [k |-> k, v |-> v])

DictKeys(d) == {d[i].k : i \in 1..Len(d)}

\* ----------------------------------------------------------- the schema
FieldOrder == <<"name", "name_kana", "company", "department", "title",
                "phone", "mobile", "fax", "email", "website", "address">>

ListFields == {"phone", "email"}

DefaultValue(k) == IF k \in ListFields THEN List(<<>>) ELSE Null

default_data == [i \in 1..Len(FieldOrder) |->
                    [k |-> FieldOrder[i], v |-> DefaultValue(FieldOrder[i])]]

\* ------------------------------------------------------------ the tokens
MemberToks == {"m_name", "m_name_ws", "m_name_empty", "m_name_null",
               "m_phone", "m_phone_e", "m_phone_es", "m_phone_null",
               "m_email", "m_company", "m_fax_num", "m_note"}

\* further members, of the cards whose records are exported
ExportToks == {"m_name2", "m_kana", "m_dept", "m_title_q", "m_phone2",
               "m_phone_mix", "m_phone_str", "m_mobile", "m_email_null",
               "m_web", "m_addr"}

MemberKey(m) ==
    CASE m \in {"m_name", "m_name_ws", "m_name_empty", "m_name_null",
                "m_name2"} -> "name"
      [] m \in {"m_phone", "m_phone_e", "m_phone_es", "m_phone_null",
                "m_phone2", "m_phone_mix", "m_phone_str"} -> "phone"
      [] m \in {"m_email", "m_email_null"} -> "email"
      [] m = "m_company" -> "company"
      [] m = "m_fax_num" -> "fax"
      [] m = "m_kana" -> "name_kana"
      [] m = "m_dept" -> "department"
      [] m = "m_title_q" -> "title"
      [] m = "m_mobile" -> "mobile"
      [] m = "m_web" -> "website"
      [] m = "m_addr" -> "address"
      [] OTHER -> "note"

\* The characters of the values: "LF" is a line feed, "q" a double quote, the
\* others are characters (or runs of characters) without meaning to any
\* encoder.
MemberValue(m) ==
    CASE m = "m_name" -> Str(<<"X">>)
      [] m = "m_name_ws" -> Str(<<" ">>)
      [] m = "m_name_empty" -> Str(<<>>)
      [] m = "m_name_null" -> Null
      [] m = "m_name2" -> Str(<<"Taro", " ", "Yamada">>)
      [] m = "m_phone" -> List(<< <<"0">> >>)
      [] m = "m_phone_e" -> List(<<>>)
      [] m = "m_phone_es" -> List(<< <<>> >>)
      [] m = "m_phone_null" -> Null
      [] m = "m_phone2" -> List(<< <<"1">>, <<"2">> >>)
      [] m = "m_phone_mix" -> List(<< <<>>, <<"1">> >>)
      [] m = "m_phone_str" -> Str(<<"0">>)
      [] m = "m_email" -> List(<< <<"a">> >>)
      [] m = "m_email_null" -> Null
      [] m = "m_company" -> Str(<<"A">>)
      [] m = "m_fax_num" -> Num(<<"5">>)
      [] m = "m_kana" -> Str(<<"K">>)
      [] m = "m_dept" -> Str(<<"S">>)
      [] m = "m_title_q" -> Str(<<"q", "z">>)
      [] m = "m_mobile" -> Str(<<"7">>)
      [] m = "m_web" -> Str(<<"w">>)
      [] m = "m_addr" -> Str(<<"a", "LF", "b">>)
      [] OTHER -> Str(<<"z">>)

MultiCharTokens == MemberToks \cup ExportToks \cup {"T", "json", "N", "A", "addr="}

\* ------------------------------------------------------ string primitives
RECURSIVE LStrip(_)
LStrip(s) == IF s # <<>> /\ Head(s) = " " THEN LStrip(Tail(s)) ELSE s

RECURSIVE RStrip(_)
RStrip(s) ==
    IF s # <<>> /\ s[Len(s)] = " " THEN RStrip(SubSeq(s, 1, Len(s) - 1)) ELSE s

\* str.strip()
Strip(s) == RStrip(LStrip(s))

MatchAt(s, pat, i) ==
    /\ i + Len(pat) <= Len(s)
    /\ \A j \in 1..Len(pat) : s[i + j] = pat[j]

\* str.find(pat, start): the 0-based index of the first occurrence of pat at
\* or after start, -1 when there is none.
Find(s, pat, start) ==
    LET hits == {i \in start..Len(s) : MatchAt(s, pat, i)}
    IN IF hits = {} THEN -1
       ELSE CHOOSE i \in hits : \A j \in hits : i <= j

\* pat in s
Contains(s, pat) == Find(s, pat, 0) # -1

\* s without its last character: a multi-character token that loses its last
\* character leaves a fragment that is neither JSON nor whitespace.
DropLastChar(s) ==
    IF s = <<>> THEN <<>>
    ELSE IF s[Len(s)] \in MultiCharTokens
         THEN Append(SubSeq(s, 1, Len(s) - 1), "p")
         ELSE SubSeq(s, 1, Len(s) - 1)

\* s[start:end] for start >= 0 and end >= -1 (end = -1 is what find returns
\* when the closing fence is missing: the slice then stops before the last
\* character).
PySlice(s, start, end) ==
    LET src == IF end = -1 THEN DropLastChar(s) ELSE s
        stop == IF end = -1 THEN Len(src) ELSE end
    IN IF start >= stop THEN <<>> ELSE SubSeq(src, start + 1, stop)

\* ------------------------------------------------------------- json.loads
\* The result of json.loads on a stripped text: ok = FALSE is
\* json.JSONDecodeError; otherwise t is the type of the parsed value ("dict",
\* "list", "str", "num", "null"), o the items of a parsed object and v the
\* parsed value when it is not an object.
JsonFail == [ok |-> FALSE, t |-> "none", o |-> <<>>, v |-> Null]
JsonObject(items) == [ok |-> TRUE, t |-> "dict", o |-> items, v |-> Null]
JsonValue(val) == [ok |-> TRUE, t |-> val.t, o |-> <<>>, v |-> val]

\* A JSON string: an opening quote, characters that are not quotes, a closing
\* quote.
IsJsonString(s) ==
    /\ Len(s) >= 2
    /\ s[1] = "q"
    /\ s[Len(s)] = "q"
    /\ \A i \in 2..(Len(s) - 1) : s[i] # "q"

Digits == {"d", "5"}

IsJsonNumber(s) == Len(s) >= 1 /\ \A i \in 1..Len(s) : s[i] \in Digits

\* The escapes of a JSON string: "esc_q" is a backslash and a double quote,
\* "esc_n" a backslash and the letter n.
EscapeChar(c) == IF c = "q" THEN "esc_q" ELSE IF c = "LF" THEN "esc_n" ELSE c
UnescapeChar(c) == IF c = "esc_q" THEN "q" ELSE IF c = "esc_n" THEN "LF" ELSE c

\* The outcome of reading one value at the head of a text: the value and
\* the text after it.
ValueFail == [ok |-> FALSE, v |-> Null, rest |-> <<>>]
ValueRead(v, rest) == [ok |-> TRUE, v |-> v, rest |-> rest]

\* A string at the head of s (s[1] is the opening quote): it ends at the next
\* quote; a raw line feed inside it is a control character, which JSON
\* does not allow.
ScanString(s) ==
    LET close == Find(s, <<"q">>, 1)
    IN IF close = -1 THEN ValueFail
       ELSE LET chars == SubSeq(s, 2, close)
            IN IF \E i \in 1..Len(chars) : chars[i] = "LF"
               THEN ValueFail
               ELSE ValueRead(Str([i \in 1..Len(chars) |-> UnescapeChar(chars[i])]),
                              SubSeq(s, close + 2, Len(s)))

\* The elements of an array after the first bracket; the records of a card
\* have arrays of strings.
RECURSIVE ParseElems(_, _)
ParseElems(s, acc) ==
    IF s = <<>> \/ Head(s) # "q" THEN ValueFail
    ELSE LET str == ScanString(s)
             r == LStrip(str.rest)
         IN IF ~str.ok \/ r = <<>> THEN ValueFail
            ELSE IF Head(r) = "]"
                 THEN ValueRead(List(Append(acc, str.v.s)), Tail(r))
            ELSE IF Head(r) = ","
                 THEN ParseElems(LStrip(Tail(r)), Append(acc, str.v.s))
            ELSE ValueFail

DigitRun(s) ==
    LET ns == {n \in 0..Len(s) : \A i \in 1..n : s[i] \in Digits}
    IN CHOOSE n \in ns : \A k \in ns : k <= n

\* One JSON value at the head of s.
ParseValue(s) ==
    IF s = <<>> THEN ValueFail
    ELSE IF Head(s) = "N" THEN ValueRead(Null, Tail(s))
    ELSE IF Head(s) = "A" THEN ValueRead(List(<< <<"a">> >>), Tail(s))
    ELSE IF Head(s) = "q" THEN ScanString(s)
    ELSE IF Head(s) \in Digits
         THEN ValueRead(Num(SubSeq(s, 1, DigitRun(s))),
                        SubSeq(s, DigitRun(s) + 1, Len(s)))
    ELSE IF Head(s) = "["
         THEN LET r == LStrip(Tail(s))
              IN IF r # <<>> /\ Head(r) = "]"
                 THEN ValueRead(List(<<>>), Tail(r))
                 ELSE ParseElems(r, <<>>)
    ELSE ValueFail

\* The members of an object that is spelled out, left to right: a quoted
\* key, a colon, a value, and a comma when another member follows.
RECURSIVE ParseItems(_, _)
ParseItems(ms, acc) ==
    IF Len(ms) >= 3 /\ ms[1] = "q" /\ ms[2] # "q" /\ ms[3] = "q"
    THEN LET colon == LStrip(SubSeq(ms, 4, Len(ms)))
             val == IF colon # <<>> /\ Head(colon) = ":"
                    THEN ParseValue(LStrip(Tail(colon)))
                    ELSE ValueFail
             after == LStrip(val.rest)
         IN IF ~val.ok THEN JsonFail
            ELSE IF after = <<>> THEN JsonObject(DictSet(acc, ms[2], val.v))
            ELSE IF Head(after) = "," /\ LStrip(Tail(after)) # <<>>
                 THEN ParseItems(LStrip(Tail(after)), DictSet(acc, ms[2], val.v))
            ELSE JsonFail
    ELSE JsonFail

\* The members of an object written with member tokens, left to right; a
\* repeated key keeps its place and takes the last value, as in a Python
\* dict.
RECURSIVE ParseMembers(_, _)
ParseMembers(ms, acc) ==
    IF ms = <<>> THEN JsonObject(acc)
    ELSE IF Head(ms) = " " THEN ParseMembers(Tail(ms), acc)
    ELSE IF Head(ms) \in MemberToks \cup ExportToks
         THEN ParseMembers(Tail(ms),
                           DictSet(acc, MemberKey(Head(ms)), MemberValue(Head(ms))))
    ELSE IF Head(ms) = "addr="
         THEN LET rest == LStrip(Tail(ms))
                  close == IF rest = <<>> THEN -1 ELSE Find(rest, <<"q">>, 1)
              IN IF rest # <<>> /\ Head(rest) = "q" /\ close # -1
                 THEN ParseMembers(SubSeq(rest, close + 2, Len(rest)),
                                   DictSet(acc, "address",
                                           Str(SubSeq(rest, 2, close))))
                 ELSE JsonFail
    ELSE JsonFail

json_loads(text) ==
    LET s == Strip(text)
    IN IF s = <<>> THEN JsonFail
       ELSE IF s[1] = "{" /\ s[Len(s)] = "}" /\ Len(s) >= 2
            THEN LET inside == SubSeq(s, 2, Len(s) - 1)
                 IN IF LStrip(inside) # <<>> /\ Head(LStrip(inside)) = "q"
                    THEN ParseItems(Strip(inside), <<>>)
                    ELSE ParseMembers(inside, <<>>)
       ELSE IF s = <<"N">> THEN JsonValue(Null)
       ELSE IF s = <<"A">> THEN JsonValue(List(<< <<"a">> >>))
       ELSE IF IsJsonNumber(s) THEN JsonValue(Num(s))
       ELSE IF IsJsonString(s) THEN JsonValue(Str(SubSeq(s, 2, Len(s) - 1)))
       ELSE JsonFail

\* ------------------------------------------- parse_business_card_response
FenceJson == <<"T", "json">>
Fence == <<"T">>

\* The text handed to json.loads: the body of the first json-tagged fence, else
\* of the first fence, else the whole stripped text.
ExtractJsonText(response_text) ==
    LET text == Strip(response_text)
    IN IF Contains(text, FenceJson)
       THEN LET start == Find(text, FenceJson, 0) + Len(FenceJson)
                end == Find(text, Fence, start)
            IN Strip(PySlice(text, start, end))
       ELSE IF Contains(text, Fence)
       THEN LET start == Find(text, Fence, 0) + Len(Fence)
                end == Find(text, Fence, start)
            IN Strip(PySlice(text, start, end))
       ELSE text

\* the merge that also replaces an explicit null by the default
RECURSIVE MergeDefaults_fillnull(_, _)
MergeDefaults_fillnull(data, i) ==
    IF i > Len(default_data) THEN data
    ELSE MergeDefaults_fillnull(
             IF DictHas(data, default_data[i].k)
                /\ DictGet(data, default_data[i].k) # Null
             THEN data
             ELSE DictSet(data, default_data[i].k, default_data[i].v),
             i + 1)

\* for key in default_data: if key not in data: data[key] = default_data[key]
RECURSIVE MergeDefaults(_, _)
MergeDefaults(data, i) ==
    IF i > Len(default_data) THEN data
    ELSE MergeDefaults(IF DictHas(data, default_data[i].k)
                       THEN data
                       ELSE Append(data, default_data[i]),
                       i + 1)

Returned(d) == [raised |-> FALSE, exc |-> "", data |-> d]
Raised(e) == [raised |-> TRUE, exc |-> e, data |-> <<>>]

\* The outcome of parse_business_card_response: the returned dict, or the
\* exception that leaves the function.  A parsed value that is not a dict
\* fails in the merge loop with TypeError (key not in data on a number or
\* None; data[key] = ... on a list or a string; none of the modelled lists and
\* strings contains the eleven field names), which the except clause for
\* json.JSONDecodeError does not catch.
parse_business_card_response(response_text) ==
    LET parsed == json_loads(ExtractJsonText(response_text))
    IN IF ~parsed.ok THEN Returned(default_data)
       ELSE IF parsed.t = "dict" THEN Returned(MergeDefaults(parsed.o, 1))
       ELSE Raised("TypeError")

\* -------------------------------------------- validate_business_card_data
\* bool(value)
Truthy(val) ==
    CASE val.t = "null" -> FALSE
      [] val.t = "str" -> val.s # <<>>
      [] val.t = "list" -> val.l # <<>>
      [] OTHER -> val.s # <<"0">>

\* the validator without the truthiness and length tests on lists
validate_business_card_data_anylist(data) ==
    \E i \in 1..Len(data) :
        \/ data[i].v.t = "list"
        \/ data[i].v.t = "str" /\ Strip(data[i].v.s) # <<>>

validate_business_card_data(data) ==
    \E i \in 1..Len(data) :
        /\ Truthy(data[i].v)
        /\ \/ data[i].v.t = "list" /\ Len(data[i].v.l) > 0
           \/ data[i].v.t = "str" /\ Strip(data[i].v.s) # <<>>

\* ------------------------------------------------- the remote environment
\* An exception is its type name and its text, str(e).  The text is the
\* sequence of the markers that the code looks for in it; a marker stands for
\* every occurrence of that substring (the "403" of "retry in 14.403s" as
\* well as a status code).
NoError == [type |-> "", msg |-> <<>>]

RemoteErrors ==
    { [type |-> "ClientError", msg |-> <<"429", "RESOURCE_EXHAUSTED">>],
      [type |-> "ClientError", msg |-> <<"429">>],
      [type |-> "ClientError", msg |-> <<"RESOURCE_EXHAUSTED">>],
      [type |-> "ClientError", msg |-> <<"429", "RESOURCE_EXHAUSTED", "403">>],
      [type |-> "ClientError", msg |-> <<"RESOURCE_EXHAUSTED", "timeout">>],
      [type |-> "ClientError", msg |-> <<"401">>],
      [type |-> "ClientError", msg |-> <<"403">>],
      [type |-> "ReadTimeout", msg |-> <<"Timeout">>],
      [type |-> "ReadTimeout", msg |-> <<"timeout">>],
      [type |-> "ServerError", msg |-> <<"500">>] }

\* A response object and its .text; none is a text of None.
NoResponse == [none |-> TRUE, text |-> <<>>]
Response(text) == [none |-> FALSE, text |-> text]

\* The response texts of plain OCR, of which process_ocr reads only whether
\* they are empty.
OcrResponses == {NoResponse, Response(<<>>), Response(<<"p">>),
                 Response(<<"p", " ", "p">>)}

\* The response texts of business-card mode: every text of at most MaxLen
\* tokens of ShortAlphabet, and the JSON objects of at most MaxMembers
\* members (or of one address string) bare, fenced, unclosed and with prose
\* around them.
ShortAlphabet == {"T", "json", " ", "p", "{", "}", "q", "d", "N", "A",
                  "m_name", "m_phone_es"}

SeqsUpTo(S, n) == UNION {[1..k -> S] : k \in 0..n}

ShortTexts == SeqsUpTo(ShortAlphabet, MaxLen)

AddressStrings == {<<"p">>, <<"T">>, <<"T", "d", "T">>, <<"T", "{", "}", "T">>}

ObjectTexts ==
    {<<"{">> \o ms \o <<"}">> : ms \in SeqsUpTo(MemberToks, MaxMembers)}
    \cup {<<"{", "addr=", "q">> \o a \o <<"q", "}">> : a \in AddressStrings}

Wrappings ==
    { [pre |-> pre, open |-> open, gap |-> gap, close |-> close, post |-> post] :
        pre \in {<<>>, <<"p", " ">>},
        open \in {<<>>, <<"T", "json">>, <<"T">>},
        gap \in {<<>>, <<" ">>},
        close \in {<<>>, <<"T">>},
        post \in {<<>>, <<" ", "p">>} }

Wrap(w, body) == w.pre \o w.open \o w.gap \o body \o w.gap \o w.close \o w.post

WrappedTexts == {Wrap(w, j) : w \in Wrappings, j \in ObjectTexts}

CardResponses ==
    {NoResponse} \cup {Response(t) : t \in ShortTexts \cup WrappedTexts}

\* ------------------------------------------------------------- constants
max_retries == 3
initial_delay == 2
DETAIL_LEN == 200

\* --------------------------------------------------------------- messages
Msg(id) == [id |-> id, etype |-> "", detail |-> <<>>]
MsgWith(id, etype, detail) == [id |-> id, etype |-> etype, detail |-> detail]
NoMsg == Msg("")

\* str.lower() on the markers.
LowerTok(c) == IF c = "Timeout" THEN "timeout" ELSE c
Lower(s) == [i \in 1..Len(s) |-> LowerTok(s[i])]

\* error_message[:200]
Prefix(s, n) == IF Len(s) <= n THEN s ELSE SubSeq(s, 1, n)

\* -------------------------------------------------------------- the state
VARIABLES
    pc,          \* "idle", "attempt" (call_gemini_with_retry waits for the
                 \* remote call), "sleep" (in time.sleep), "card_call"
                 \* (process_business_card waits for the remote call), "done"
    mode,        \* "none", "ocr" (process_ocr) or "card" (process_business_card)
    api_key,     \* the api_key argument, a text
    attempt,     \* the loop variable of call_gemini_with_retry
    last_error,  \* last_error of call_gemini_with_retry
    log,         \* the remote calls and sleeps of the invocation, in order
    retry_ret,   \* what call_gemini_with_retry returned
    response,    \* the response of the successful remote call
    parsed,      \* the outcome of parse_business_card_response
    ret,         \* what process_ocr / process_business_card returned
    prior,       \* history: how the previous call_gemini_with_retry ended
    xpc,         \* the export page: "idle", "parsed", "edited", "exported"
    record,      \* the Contact Record shown on the export page
    data_list,   \* the argument of generate_csv
    vcard_out,   \* what generate_vcard returned or raised
    json_out,    \* what generate_json returned
    csv_out,     \* what generate_csv returned
    options,     \* the options dict handed to build_prompt
    prompt,      \* what build_prompt returned
    ipc,         \* the image: "idle", "chosen", "handled", "sent"
    source,      \* "file" (st.file_uploader) or "camera" (st.camera_input)
    raw,         \* the size of the image as it arrived
    image        \* the size of the image after its handler, or none

pipelineVars == <<pc, mode, api_key, attempt, last_error, log, retry_ret,
                  response, parsed, ret>>
exportVars == <<xpc, record, data_list, vcard_out, json_out, csv_out>>
promptVars == <<options, prompt>>
imageVars == <<ipc, source, raw, image>>

vars == <<pipelineVars, prior, exportVars, promptVars, imageVars>>

CallEvent(ok, err) == [ev |-> "call", ok |-> ok, err |-> err, secs |-> 0]
SleepEvent(secs) == [ev |-> "sleep", ok |-> FALSE, err |-> NoError, secs |-> secs]

NoRetryRet == [set |-> FALSE, success |-> FALSE, response |-> NoResponse,
               error |-> NoError]
RetrySuccess(resp) == [set |-> TRUE, success |-> TRUE, response |-> resp,
                       error |-> NoError]
RetryFailure(e) == [set |-> TRUE, success |-> FALSE, response |-> NoResponse,
                    error |-> e]

NoParse == [set |-> FALSE, raised |-> FALSE, exc |-> "", data |-> <<>>]
Parsed(r) == [set |-> TRUE, raised |-> r.raised, exc |-> r.exc, data |-> r.data]

NoRet == [set |-> FALSE, success |-> FALSE, text |-> <<>>, data |-> <<>>,
          msg |-> NoMsg]
RetText(text) == [set |-> TRUE, success |-> TRUE, text |-> text, data |-> <<>>,
                  msg |-> NoMsg]
RetData(d) == [set |-> TRUE, success |-> TRUE, text |-> <<>>, data |-> d,
               msg |-> NoMsg]
RetFail(m) == [set |-> TRUE, success |-> FALSE, text |-> <<>>, data |-> <<>>,
               msg |-> m]

\* how an earlier call_gemini_with_retry ended: its attempt index and outcome
NoPrior == [set |-> FALSE, attempt |-> 0, success |-> FALSE]
Prior(n, ok) == [set |-> TRUE, attempt |-> n, success |-> ok]

\* what an encoder gave: a text, or the exception that left it
NoOut == [set |-> FALSE, raised |-> FALSE, exc |-> "", text |-> <<>>]
OutText(t) == [set |-> TRUE, raised |-> FALSE, exc |-> "", text |-> t]
OutRaised(e) == [set |-> TRUE, raised |-> TRUE, exc |-> e, text |-> <<>>]

\* The option keys are the labels of the sidebar, one token each: "auto" is
\* the label of automatic language detection, "plain_text", "markdown_text"
\* and "table_text" those of the output formats, "exact_copy" and
\* "summary_copy" those of the detail levels.  The sidebar starts with the
\* first label of each list.
DefaultOptions ==
    [language |-> "auto", output_format |-> "plain_text", detail |-> "exact_copy"]

NoImage == [none |-> TRUE, w |-> 0, h |-> 0]
Image(w, h) == [none |-> FALSE, w |-> w, h |-> h]

Init ==
    /\ pc = "idle"
    /\ mode = "none"
    /\ api_key = <<>>
    /\ attempt = 0
    /\ last_error = NoError
    /\ log = <<>>
    /\ retry_ret = NoRetryRet
    /\ response = NoResponse
    /\ parsed = NoParse
    /\ ret = NoRet
    /\ prior = NoPrior
    /\ xpc = "idle"
    /\ record = <<>>
    /\ data_list = <<>>
    /\ vcard_out = NoOut
    /\ json_out = NoOut
    /\ csv_out = NoOut
    /\ options = DefaultOptions
    /\ prompt = <<>>
    /\ ipc = "idle"
    /\ source = "none"
    /\ raw = NoImage
    /\ image = NoImage

\* ------------------------------------------------- call_gemini_with_retry
\* the classification with timeouts taken for retryable
IsRateLimit_timeout(error_msg) ==
    \/ Contains(error_msg, <<"429">>)
    \/ Contains(error_msg, <<"RESOURCE_EXHAUSTED">>)
    \/ Contains(Lower(error_msg), <<"timeout">>)

\* "429" in error_msg or "RESOURCE_EXHAUSTED" in error_msg
IsRateLimit(error_msg) ==
    Contains(error_msg, <<"429">>) \/ Contains(error_msg, <<"RESOURCE_EXHAUSTED">>)

\* the retry branch with an off-by-one bound
ShouldRetry_inclusive(error_msg, n) == IsRateLimit(error_msg) /\ n <= max_retries

\* the retry branch of the except clause
ShouldRetry(error_msg, n) == IsRateLimit(error_msg) /\ n < max_retries

\* the backoff with * in place of **
WaitTime_linear(n) == initial_delay * (2 * n)

\* wait_time = initial_delay * (2 ** attempt)
WaitTime(n) == initial_delay * (2 ^ n)

\* ------------------------------------------------------------ process_ocr
\* The except clause of process_ocr: the message for an error text.
OcrErrorMessage(e) ==
    LET error_message == e.msg
    IN IF Contains(error_message, <<"401">>) \/ Contains(error_message, <<"403">>)
       THEN Msg("ocr_invalid_key")
       ELSE IF Contains(error_message, <<"429">>)
       THEN MsgWith("ocr_rate_limit", "", Prefix(error_message, DETAIL_LEN))
       ELSE IF Contains(Lower(error_message), <<"timeout">>)
       THEN Msg("ocr_timeout")
       ELSE IF Contains(error_message, <<"RESOURCE_EXHAUSTED">>)
       THEN Msg("ocr_resource_exhausted")
       ELSE MsgWith("ocr_error", e.type, error_message)

\* the success branch without the test of the text
OcrResult_anytext(resp) ==
    IF ~resp.none THEN RetText(resp.text) ELSE RetFail(Msg("ocr_no_text"))

\* The success branch of process_ocr: if result and result.text.
OcrResult(resp) ==
    IF ~resp.none /\ resp.text # <<>>
    THEN RetText(resp.text)
    ELSE RetFail(Msg("ocr_no_text"))

\* The keys process_ocr is called with: the empty one, a key, and a blank
\* one, which "not api_key" lets through.
ApiKeys == {<<>>, <<"k">>, <<" ">>}

\* the loop variable carried over from the invocation before
FirstAttempt_shared(p) == IF p.set THEN p.attempt ELSE 0

\* for attempt in range(max_retries + 1): the loop variable is local to the
\* invocation and begins at 0 whatever the invocations before it did
FirstAttempt(p) == 0

\* process_ocr is entered: without a key it returns at once, with one it
\* builds the client and the prompt and enters call_gemini_with_retry.
ProcessOcr ==
    /\ pc = "idle"
    /\ \E key \in ApiKeys :
        /\ api_key' = key
        /\ IF key = <<>>
           THEN /\ pc' = "done"
                /\ ret' = RetFail(Msg("ocr_no_key"))
           ELSE /\ pc' = "attempt"
                /\ ret' = NoRet
    /\ mode' = "ocr"
    /\ attempt' = FirstAttempt(prior)
    /\ last_error' = NoError
    /\ UNCHANGED <<log, retry_ret, response, parsed>>
    /\ UNCHANGED <<prior, exportVars, promptVars, imageVars>>

\* generate_content returns: call_gemini_with_retry returns (True, response)
\* and process_ocr returns the text or the no-text message.
AttemptSucceeds ==
    /\ pc = "attempt"
    /\ \E resp \in OcrResponses :
        /\ response' = resp
        /\ retry_ret' = RetrySuccess(resp)
        /\ ret' = OcrResult(resp)
    /\ log' = Append(log, CallEvent(TRUE, NoError))
    /\ pc' = "done"
    /\ UNCHANGED <<mode, api_key, attempt, last_error, parsed>>
    /\ UNCHANGED <<prior, exportVars, promptVars, imageVars>>

\* generate_content raises e: a rate-limit error with attempts left starts
\* the backoff sleep; any other error, or the last attempt, makes
\* call_gemini_with_retry return (False, e), which process_ocr raises and
\* turns into a message.
AttemptFails ==
    /\ pc = "attempt"
    /\ \E e \in RemoteErrors :
        /\ last_error' = e
        /\ IF ShouldRetry(e.msg, attempt)
           THEN /\ log' = log \o <<CallEvent(FALSE, e),
                                   SleepEvent(WaitTime(attempt))>>
                /\ pc' = "sleep"
                /\ UNCHANGED <<retry_ret, ret>>
           ELSE /\ log' = Append(log, CallEvent(FALSE, e))
                /\ retry_ret' = RetryFailure(e)
                /\ ret' = RetFail(OcrErrorMessage(e))
                /\ pc' = "done"
    /\ UNCHANGED <<mode, api_key, attempt, response, parsed>>
    /\ UNCHANGED <<prior, exportVars, promptVars, imageVars>>

\* time.sleep returns: continue with the next iteration of the loop.
SleepReturns ==
    /\ pc = "sleep"
    /\ attempt' = attempt + 1
    /\ pc' = "attempt"
    /\ UNCHANGED <<mode, api_key, last_error, log, retry_ret, response, parsed,
                   ret>>
    /\ UNCHANGED <<prior, exportVars, promptVars, imageVars>>

\* -------------------------------------------------- process_business_card
\* The except clause of process_business_card.
CardErrorMessage(error_msg) ==
    IF Contains(error_msg, <<"401">>) \/ Contains(error_msg, <<"403">>)
    THEN Msg("card_invalid_key")
    ELSE IF Contains(error_msg, <<"429">>)
    THEN Msg("card_rate_limit")
    ELSE MsgWith("card_error", "", error_msg)

\* The text of the exception that leaves parse_business_card_response.
ParseErrorText(exc) == <<exc>>

\* The try block of process_business_card after the remote call returned.
CardResult(resp) ==
    IF ~resp.none /\ resp.text # <<>>
    THEN LET data == parse_business_card_response(resp.text)
         IN IF data.raised
            THEN RetFail(CardErrorMessage(ParseErrorText(data.exc)))
            ELSE IF validate_business_card_data(data.data)
                 THEN RetData(data.data)
                 ELSE RetFail(Msg("card_no_extract"))
    ELSE RetFail(Msg("card_no_response"))

\* main() calls process_business_card only with a key; the function builds
\* the client and makes the one remote call.
ProcessBusinessCard ==
    /\ pc = "idle"
    /\ \E key \in ApiKeys \ {<<>>} : api_key' = key
    /\ mode' = "card"
    /\ pc' = "card_call"
    /\ UNCHANGED <<attempt, last_error, log, retry_ret, response, parsed, ret>>
    /\ UNCHANGED <<prior, exportVars, promptVars, imageVars>>

\* generate_content returns: the rest of the try block runs.
CardCallSucceeds ==
    /\ pc = "card_call"
    /\ \E resp \in CardResponses :
        /\ response' = resp
        /\ parsed' = IF ~resp.none /\ resp.text # <<>>
                     THEN Parsed(parse_business_card_response(resp.text))
                     ELSE NoParse
        /\ ret' = CardResult(resp)
    /\ log' = Append(log, CallEvent(TRUE, NoError))
    /\ pc' = "done"
    /\ UNCHANGED <<mode, api_key, attempt, last_error, retry_ret>>
    /\ UNCHANGED <<prior, exportVars, promptVars, imageVars>>

\* generate_content raises e: the except clause turns it into a message.
CardCallFails ==
    /\ pc = "card_call"
    /\ \E e \in RemoteErrors :
        /\ log' = Append(log, CallEvent(FALSE, e))
        /\ ret' = RetFail(CardErrorMessage(e.msg))
    /\ pc' = "done"
    /\ UNCHANGED <<mode, api_key, attempt, last_error, retry_ret, response,
                   parsed>>
    /\ UNCHANGED <<prior, exportVars, promptVars, imageVars>>

\* ------------------------------------------------------------ the caller
\* The result was shown; main() goes on to the next image.  Nothing of an
\* invocation survives it.
NextImage ==
    /\ pc = "done"
    /\ pc' = "idle"
    /\ mode' = "none"
    /\ api_key' = <<>>
    /\ attempt' = 0
    /\ last_error' = NoError
    /\ log' = <<>>
    /\ retry_ret' = NoRetryRet
    /\ response' = NoResponse
    /\ parsed' = NoParse
    /\ ret' = NoRet
    /\ UNCHANGED <<prior, exportVars, promptVars, imageVars>>

Next ==
    \/ ProcessOcr
    \/ AttemptSucceeds
    \/ AttemptFails
    \/ SleepReturns
    \/ ProcessBusinessCard
    \/ CardCallSucceeds
    \/ CardCallFails
    \/ NextImage

Spec == Init /\ [][Next]_vars

\* ------------------------------------------- a sequence of OCR invocations
\* process_ocr returned and is called again (the next image, or a rerun of
\* the page): the locals of the finished call are gone; the history variable
\* records how its call_gemini_with_retry ended.
NextInvocation ==
    /\ pc = "done"
    /\ mode = "ocr"
    /\ prior' = IF retry_ret.set THEN Prior(attempt, retry_ret.success) ELSE prior
    /\ pc' = "idle"
    /\ mode' = "none"
    /\ api_key' = <<>>
    /\ attempt' = 0
    /\ last_error' = NoError
    /\ log' = <<>>
    /\ retry_ret' = NoRetryRet
    /\ response' = NoResponse
    /\ parsed' = NoParse
    /\ ret' = NoRet
    /\ UNCHANGED <<exportVars, promptVars, imageVars>>

NextRetry ==
    \/ ProcessOcr
    \/ AttemptSucceeds
    \/ AttemptFails
    \/ SleepReturns
    \/ NextInvocation

SpecRetry == Init /\ [][NextRetry]_vars

\* ===================================================================
\* The edit form and the export encoders
\* ===================================================================
MaxExportMembers == 2
MaxRows == 2

\* ', '.join(parts), ';'.join(parts), '\r\n'.join(lines)
RECURSIVE JoinWith(_, _)
JoinWith(parts, sep) ==
    IF parts = <<>> THEN <<>>
    ELSE IF Len(parts) = 1 THEN parts[1]
    ELSE parts[1] \o sep \o JoinWith(Tail(parts), sep)

\* s.split(c)
RECURSIVE SplitOn(_, _)
SplitOn(s, c) ==
    IF \A i \in 1..Len(s) : s[i] # c THEN <<s>>
    ELSE LET i == CHOOSE k \in 1..Len(s) :
                      s[k] = c /\ \A j \in 1..(k - 1) : s[j] # c
         IN <<SubSeq(s, 1, i - 1)>> \o SplitOn(SubSeq(s, i + 1, Len(s)), c)

NonEmpty(x) == x # <<>>

\* the elements that pass "if v"
SelectNonEmpty(l) == SelectSeq(l, NonEmpty)

\* s.split(): the runs of characters between whitespace
Words(s) == SelectNonEmpty(SplitOn(s, " "))

\* data.get(k, dflt)
Get(data, k, dflt) == IF DictHas(data, k) THEN DictGet(data, k) ELSE dflt

\* str(v), and v inside an f-string
Format(v) ==
    CASE v.t = "str" -> v.s
      [] v.t = "num" -> v.s
      [] v.t = "null" -> <<"None">>
      [] OTHER -> <<"[">> \o JoinWith([i \in 1..Len(v.l) |->
                                          <<"'">> \o v.l[i] \o <<"'">>],
                                      <<",", " ">>) \o <<"]">>

\* ---------------------------------------------- render_business_card_form
\* BUSINESS_CARD_FIELDS: the fields of type "list"
FormListFields == {"phone", "email"}

\* what the user does to the form: nothing, or the text typed into one field
NoEdit == [field |-> "", text |-> <<>>]
Typed(f, t) == [field |-> f, text |-> t]

FormEdits ==
    {NoEdit, Typed("company", <<>>), Typed("department", <<"S">>),
     Typed("phone", <<"1", ",", " ", "2">>), Typed("phone", <<" ">>)}

\* the text the form shows for a value
DisplayValue(value) ==
    IF value.t = "null" THEN <<>>
    ELSE IF value.t = "list" THEN JoinWith(SelectNonEmpty(value.l), <<",", " ">>)
    ELSE Format(value)

\* the value the form stores for the text left in a field
EditedValue(field_key, edited_value) ==
    IF field_key \in FormListFields /\ edited_value # <<>>
    THEN LET pieces == SplitOn(edited_value, ",")
         IN List(SelectNonEmpty([i \in 1..Len(pieces) |-> Strip(pieces[i])]))
    ELSE IF edited_value # <<>> THEN Str(edited_value) ELSE Null

render_business_card_form(data, edit) ==
    [i \in 1..Len(FieldOrder) |->
        LET field_key == FieldOrder[i]
            value == Get(data, field_key, Null)
            edited_value == IF edit.field = field_key THEN edit.text
                            ELSE DisplayValue(value)
        IN [k |-> field_key, v |-> EditedValue(field_key, edited_value)]]

\* ------------------------------------------------------------ generate_vcard
\* name.split() needs a string
NameRaises(name) == Truthy(name) /\ name.t # "str"

NameLines(name) ==
    IF ~Truthy(name) THEN <<>>
    ELSE LET name_parts == Words(name.s)
         IN << IF Len(name_parts) >= 2
               THEN <<"N:">> \o name_parts[1] \o <<";">>
                      \o JoinWith(Tail(name_parts), <<" ">>) \o <<";", ";", ";">>
               ELSE <<"N:">> \o name.s \o <<";", ";", ";", ";">>,
               <<"FN:">> \o name.s >>

org_parts(company, department) ==
    IF Truthy(department) THEN <<company, department>> ELSE <<company>>

\* ';'.join(org_parts) needs strings
OrgRaises(company, department) ==
    /\ Truthy(company) \/ Truthy(department)
    /\ \E i \in 1..Len(org_parts(company, department)) :
          org_parts(company, department)[i].t # "str"

OrgLines(company, department) ==
    IF Truthy(company) \/ Truthy(department)
    THEN LET parts == org_parts(company, department)
         IN << <<"ORG:">> \o JoinWith([i \in 1..Len(parts) |-> parts[i].s], <<";">>) >>
    ELSE <<>>

ScalarLine(tag, v) == IF Truthy(v) THEN << <<tag>> \o Format(v) >> ELSE <<>>

\* "for phone in phones" needs an iterable
ListRaises(v) == v.t \in {"null", "num"}

ListItems(v) ==
    IF v.t = "str" THEN (IF v.s # <<>> THEN <<v.s>> ELSE <<>>) ELSE v.l

ListLines(tag, v) ==
    LET items == SelectNonEmpty(ListItems(v))
    IN [i \in 1..Len(items) |-> <<tag>> \o items[i]]

AddressLine(address) ==
    IF Truthy(address)
    THEN << <<"ADR;TYPE=WORK:", ";", ";">> \o Format(address)
              \o <<";", ";", ";", ";", "Nihon">> >>
    ELSE <<>>

generate_vcard(data) ==
    LET name == Get(data, "name", Str(<<>>))
        company == Get(data, "company", Str(<<>>))
        department == Get(data, "department", Str(<<>>))
        title == Get(data, "title", Str(<<>>))
        phones == Get(data, "phone", List(<<>>))
        mobile == Get(data, "mobile", Str(<<>>))
        fax == Get(data, "fax", Str(<<>>))
        emails == Get(data, "email", List(<<>>))
        website == Get(data, "website", Str(<<>>))
        address == Get(data, "address", Str(<<>>))
    IN IF NameRaises(name) THEN OutRaised("AttributeError")
       ELSE IF OrgRaises(company, department) THEN OutRaised("TypeError")
       ELSE IF ListRaises(phones) THEN OutRaised("TypeError")
       ELSE IF ListRaises(emails) THEN OutRaised("TypeError")
       ELSE OutText(JoinWith(
                << <<"BEGIN:VCARD">>, <<"VERSION:3.0">> >>
                \o NameLines(name)
                \o OrgLines(company, department)
                \o ScalarLine("TITLE:", title)
                \o ListLines("TEL;TYPE=WORK:", phones)
                \o ScalarLine("TEL;TYPE=CELL:", mobile)
                \o ScalarLine("TEL;TYPE=FAX:", fax)
                \o ListLines("EMAIL:", emails)
                \o ScalarLine("URL:", website)
                \o AddressLine(address)
                \o << <<"END:VCARD">> >>,
                <<"CRLF">>))

\* -------------------------------------------------------------- generate_csv
fieldnames == <<"name", "name_kana", "company", "department", "title",
                "phone", "mobile", "fax", "email", "website", "address">>

\* the Japanese label of a column, one token each
header_map(f) ==
    CASE f = "name" -> "L_name"
      [] f = "name_kana" -> "L_name_kana"
      [] f = "company" -> "L_company"
      [] f = "department" -> "L_department"
      [] f = "title" -> "L_title"
      [] f = "phone" -> "L_phone"
      [] f = "mobile" -> "L_mobile"
      [] f = "fax" -> "L_fax"
      [] f = "email" -> "L_email"
      [] f = "website" -> "L_website"
      [] OTHER -> "L_address"

\* the cell that keeps only the first element of a list
CsvCell_first(value) ==
    LET joined == IF value.t = "list"
                  THEN Str(IF SelectNonEmpty(value.l) = <<>> THEN <<>>
                           ELSE SelectNonEmpty(value.l)[1])
                  ELSE value
    IN IF Truthy(joined) THEN Format(joined) ELSE <<>>

\* the text of a cell: a list is joined, a falsy value is the empty text
CsvCell(value) ==
    LET joined == IF value.t = "list"
                  THEN Str(JoinWith(SelectNonEmpty(value.l), <<",", " ">>))
                  ELSE value
    IN IF Truthy(joined) THEN Format(joined) ELSE <<>>

\* csv.writer, QUOTE_MINIMAL: a field with the delimiter, the quote character
\* or a line break is put in quotes, its quotes doubled
NeedsQuote(cell) ==
    \E i \in 1..Len(cell) : cell[i] \in {",", "q", "LF", "CR", "CRLF"}

RECURSIVE DoubleQuotes(_)
DoubleQuotes(cell) ==
    IF cell = <<>> THEN <<>>
    ELSE (IF Head(cell) = "q" THEN <<"q", "q">> ELSE <<Head(cell)>>)
         \o DoubleQuotes(Tail(cell))

\* the writer that never quotes
CsvField_bare(cell) == cell

CsvField(cell) ==
    IF NeedsQuote(cell) THEN <<"q">> \o DoubleQuotes(cell) \o <<"q">> ELSE cell

writerow(cells) ==
    JoinWith([i \in 1..Len(cells) |-> CsvField(cells[i])], <<",">>) \o <<"CRLF">>

RECURSIVE WriteRows(_)
WriteRows(data_rows) ==
    IF data_rows = <<>> THEN <<>>
    ELSE writerow([i \in 1..Len(fieldnames) |->
                     CsvCell(Get(Head(data_rows), fieldnames[i], Str(<<>>)))])
         \o WriteRows(Tail(data_rows))

generate_csv(rows) ==
    IF rows = <<>> THEN OutText(<<>>)
    ELSE OutText(writerow([i \in 1..Len(fieldnames) |->
                              <<header_map(fieldnames[i])>>])
                 \o WriteRows(rows))

\* ------------------------------------------------------------- generate_json
indent == 2

\* a line break and the indentation of a nesting level
NewLine(level) == [i \in 1..(1 + indent * level) |-> " "]

DumpString(s) == <<"q">> \o [i \in 1..Len(s) |-> EscapeChar(s[i])] \o <<"q">>

\* the serializer that writes an empty list as null
DumpValue_emptynull(v) ==
    CASE v.t = "null" -> <<"N">>
      [] v.t = "str" -> DumpString(v.s)
      [] v.t = "num" -> v.s
      [] OTHER ->
           IF v.l = <<>> THEN <<"N">>
           ELSE <<"[">> \o NewLine(2)
                \o JoinWith([i \in 1..Len(v.l) |-> DumpString(v.l[i])],
                            <<",">> \o NewLine(2))
                \o NewLine(1) \o <<"]">>

DumpValue(v) ==
    CASE v.t = "null" -> <<"N">>
      [] v.t = "str" -> DumpString(v.s)
      [] v.t = "num" -> v.s
      [] OTHER ->
           IF v.l = <<>> THEN <<"[", "]">>
           ELSE <<"[">> \o NewLine(2)
                \o JoinWith([i \in 1..Len(v.l) |-> DumpString(v.l[i])],
                            <<",">> \o NewLine(2))
                \o NewLine(1) \o <<"]">>

\* json.dumps(data, ensure_ascii=False, indent=indent): the items in the
\* order of the dict
generate_json(data) ==
    IF data = <<>> THEN OutText(<<"{", "}">>)
    ELSE OutText(<<"{">> \o NewLine(1)
                 \o JoinWith([i \in 1..Len(data) |->
                                 <<"q", data[i].k, "q", ":", " ">>
                                 \o DumpValue(data[i].v)],
                             <<",">> \o NewLine(1))
                 \o NewLine(0) \o <<"}">>)

\* --------------------------------------------------------- the export page
ExportMembers ==
    {"m_name", "m_name2", "m_kana", "m_company", "m_dept", "m_title_q",
     "m_phone2", "m_phone_mix", "m_phone_null", "m_phone_str", "m_mobile",
     "m_fax_num", "m_email", "m_web", "m_addr", "m_note"}

\* the replies whose records are exported: objects of these members
ExportTexts ==
    {<<"{">> \o ms \o <<"}">> : ms \in SeqsUpTo(ExportMembers, MaxExportMembers)}

\* the records a list handed to generate_csv holds beside the one at hand
OtherRecords ==
    {default_data,
     <<[k |-> "phone", v |-> List(<< <<"1">>, <<"2">> >>)],
       [k |-> "name", v |-> Str(<<"X">>)]>>}

DataLists(r) ==
    {<<>>} \cup {<<r>> \o rest : rest \in SeqsUpTo(OtherRecords, MaxRows - 1)}

\* parse_business_card_response returns the record of a reply
ParseCard ==
    /\ xpc = "idle"
    /\ \E text \in ExportTexts :
        LET r == parse_business_card_response(text)
        IN /\ ~r.raised
           /\ record' = r.data
    /\ xpc' = "parsed"
    /\ UNCHANGED <<data_list, vcard_out, json_out, csv_out>>
    /\ UNCHANGED <<pipelineVars, prior, promptVars, imageVars>>

\* render_business_card_form returns the edited record
RenderForm ==
    /\ xpc = "parsed"
    /\ \E edit \in FormEdits : record' = render_business_card_form(record, edit)
    /\ xpc' = "edited"
    /\ UNCHANGED <<data_list, vcard_out, json_out, csv_out>>
    /\ UNCHANGED <<pipelineVars, prior, promptVars, imageVars>>

GenerateVcard ==
    /\ xpc \in {"parsed", "edited"}
    /\ vcard_out' = generate_vcard(record)
    /\ xpc' = "exported"
    /\ UNCHANGED <<record, data_list, json_out, csv_out>>
    /\ UNCHANGED <<pipelineVars, prior, promptVars, imageVars>>

GenerateJson ==
    /\ xpc \in {"parsed", "edited"}
    /\ json_out' = generate_json(record)
    /\ xpc' = "exported"
    /\ UNCHANGED <<record, data_list, vcard_out, csv_out>>
    /\ UNCHANGED <<pipelineVars, prior, promptVars, imageVars>>

GenerateCsv ==
    /\ xpc \in {"parsed", "edited"}
    /\ \E rows \in DataLists(record) :
        /\ data_list' = rows
        /\ csv_out' = generate_csv(rows)
    /\ xpc' = "exported"
    /\ UNCHANGED <<record, vcard_out, json_out>>
    /\ UNCHANGED <<pipelineVars, prior, promptVars, imageVars>>

\* the page is left for the next card
NextCard ==
    /\ xpc = "exported"
    /\ xpc' = "idle"
    /\ record' = <<>>
    /\ data_list' = <<>>
    /\ vcard_out' = NoOut
    /\ json_out' = NoOut
    /\ csv_out' = NoOut
    /\ UNCHANGED <<pipelineVars, prior, promptVars, imageVars>>

NextExport ==
    \/ ParseCard
    \/ RenderForm
    \/ GenerateVcard
    \/ GenerateJson
    \/ GenerateCsv
    \/ NextCard

SpecExport == Init /\ [][NextExport]_vars

\* ===================================================================
\* The prompt builder
\* ===================================================================
\* The keys build_prompt may be given: the labels of the sidebar and, for
\* each option, a key that is in no table.
LanguageKeys == {"auto", "ja", "en", "zh", "ko", "other"}
OutputFormatKeys == {"plain_text", "markdown_text", "table_text", "other"}
DetailKeys == {"exact_copy", "summary_copy", "other"}

\* LANGUAGE_OPTIONS.get(language, ""): the prefix, one token per phrase
\* ("ja_de" is the phrase that asks for Japanese, and so on)
LANGUAGE_OPTIONS(language) ==
    CASE language = "ja" -> <<"ja_de">>
      [] language = "en" -> <<"en_de">>
      [] language = "zh" -> <<"zh_de">>
      [] language = "ko" -> <<"ko_de">>
      [] OTHER -> <<>>

\* OUTPUT_FORMAT_OPTIONS.get(output_format, "plain")
OUTPUT_FORMAT_OPTIONS(output_format) ==
    CASE output_format = "markdown_text" -> "markdown"
      [] output_format = "table_text" -> "table"
      [] OTHER -> "plain"

\* DETAIL_OPTIONS.get(detail, "exact")
DETAIL_OPTIONS(detail) ==
    CASE detail = "summary_copy" -> "summary"
      [] OTHER -> "exact"

\* The sentences of the prompt, one token each: "BASE" is the base
\* instruction, "MD", "TBL" and "SUM" the markdown, table and summary
\* sentences, "sep" the comma after the language prefix, "LF" a line feed.
base_instruction == <<"BASE">>

\* the builder that puts the language after the base instruction
build_prompt_suffix(language, output_format, detail) ==
    LET lang_prefix == LANGUAGE_OPTIONS(language)
        format_type == OUTPUT_FORMAT_OPTIONS(output_format)
        detail_type == DETAIL_OPTIONS(detail)
        with_lang == IF lang_prefix # <<>>
                     THEN base_instruction \o <<"sep">> \o lang_prefix
                     ELSE base_instruction
        with_format == IF format_type = "markdown" THEN with_lang \o <<"LF", "MD">>
                       ELSE IF format_type = "table" THEN with_lang \o <<"LF", "TBL">>
                       ELSE with_lang
    IN IF detail_type = "summary" THEN with_format \o <<"LF", "SUM">>
       ELSE with_format

build_prompt(language, output_format, detail) ==
    LET lang_prefix == LANGUAGE_OPTIONS(language)
        format_type == OUTPUT_FORMAT_OPTIONS(output_format)
        detail_type == DETAIL_OPTIONS(detail)
        with_lang == IF lang_prefix # <<>>
                     THEN lang_prefix \o <<"sep">> \o base_instruction
                     ELSE base_instruction
        with_format == IF format_type = "markdown" THEN with_lang \o <<"LF", "MD">>
                       ELSE IF format_type = "table" THEN with_lang \o <<"LF", "TBL">>
                       ELSE with_lang
    IN IF detail_type = "summary" THEN with_format \o <<"LF", "SUM">>
       ELSE with_format

\* an option is chosen: the prompt of the earlier choice is gone
SelectLanguage ==
    /\ \E k \in LanguageKeys \ {options.language} :
          options' = [options EXCEPT !.language = k]
    /\ prompt' = <<>>
    /\ UNCHANGED <<pipelineVars, prior, exportVars, imageVars>>

SelectOutputFormat ==
    /\ \E k \in OutputFormatKeys \ {options.output_format} :
          options' = [options EXCEPT !.output_format = k]
    /\ prompt' = <<>>
    /\ UNCHANGED <<pipelineVars, prior, exportVars, imageVars>>

SelectDetail ==
    /\ \E k \in DetailKeys \ {options.detail} :
          options' = [options EXCEPT !.detail = k]
    /\ prompt' = <<>>
    /\ UNCHANGED <<pipelineVars, prior, exportVars, imageVars>>

\* build_prompt is called with the options
BuildPrompt ==
    /\ prompt = <<>>
    /\ prompt' = build_prompt(options.language, options.output_format,
                              options.detail)
    /\ UNCHANGED <<options, pipelineVars, prior, exportVars, imageVars>>

NextPrompt ==
    \/ SelectLanguage
    \/ SelectOutputFormat
    \/ SelectDetail
    \/ BuildPrompt

SpecPrompt == Init /\ [][NextPrompt]_vars

\* ===================================================================
\* The images
\* ===================================================================
\* load_image(uploaded_file, max_dimension=1920)
max_dimension == 1920

\* the widths and heights of the images that arrive, in pixels
Dimensions == {100, 1080, 1920, 1921, 2160, 3840, 4000}

\* int(a * (max_dimension / b)) for the dimensions above
Scaled(a, b) == (a * max_dimension) \div b

\* load_image after Image.open and the conversion to RGB: an image with a
\* side over max_dimension is resized, its longer side to max_dimension
load_image(img) ==
    IF img.w > max_dimension \/ img.h > max_dimension
    THEN IF img.w > img.h
         THEN Image(max_dimension, Scaled(img.h, img.w))
         ELSE Image(Scaled(img.w, img.h), max_dimension)
    ELSE img

\* process_camera_image after Image.open: the conversion to RGB, no resize
process_camera_image(img) == img

\* a file is uploaded or a picture is taken
ChooseImage ==
    /\ ipc = "idle"
    /\ \E src \in {"file", "camera"}, w \in Dimensions, h \in Dimensions :
        /\ source' = src
        /\ raw' = Image(w, h)
    /\ ipc' = "chosen"
    /\ image' = NoImage
    /\ UNCHANGED <<pipelineVars, prior, exportVars, promptVars>>

\* main() hands an uploaded file to load_image, which returns the image, or
\* None when the file cannot be read
LoadImage ==
    /\ ipc = "chosen"
    /\ source = "file"
    /\ \E readable \in BOOLEAN :
          image' = IF readable THEN load_image(raw) ELSE NoImage
    /\ ipc' = "handled"
    /\ UNCHANGED <<source, raw, pipelineVars, prior, exportVars, promptVars>>

\* main() hands a camera picture to process_camera_image, which returns
\* (True, image, "") or, when the picture cannot be read, (False, None, ...)
ProcessCameraImage ==
    /\ ipc = "chosen"
    /\ source = "camera"
    /\ \E readable \in BOOLEAN :
          image' = IF readable THEN process_camera_image(raw) ELSE NoImage
    /\ ipc' = "handled"
    /\ UNCHANGED <<source, raw, pipelineVars, prior, exportVars, promptVars>>

\* the image is handed to process_ocr or process_business_card, which put
\* it into the contents of the inference call
SendImage ==
    /\ ipc = "handled"
    /\ ~image.none
    /\ ipc' = "sent"
    /\ UNCHANGED <<source, raw, image, pipelineVars, prior, exportVars,
                   promptVars>>

\* without an image main() shows the error and goes on; after the inference
\* call it goes on as well
NextItem ==
    /\ \/ ipc = "handled" /\ image.none
       \/ ipc = "sent"
    /\ ipc' = "idle"
    /\ source' = "none"
    /\ raw' = NoImage
    /\ image' = NoImage
    /\ UNCHANGED <<pipelineVars, prior, exportVars, promptVars>>

NextImages ==
    \/ ChooseImage
    \/ LoadImage
    \/ ProcessCameraImage
    \/ SendImage
    \/ NextItem

SpecImage == Init /\ [][NextImages]_vars

\* ===================================================================
\* Properties
\* ===================================================================
IsCall(e) == e.ev = "call"
IsSleep(e) == e.ev = "sleep"
CallsOf(l) == SelectSeq(l, IsCall)
SleepsOf(l) == SelectSeq(l, IsSleep)

RECURSIVE TotalSleep(_)
TotalSleep(l) == IF l = <<>> THEN 0 ELSE Head(l).secs + TotalSleep(Tail(l))

\* The rate-limit signal of the specification: the error text carries 429 or
\* RESOURCE_EXHAUSTED.
RateLimitSignal(msg) ==
    \E i \in 1..Len(msg) : msg[i] \in {"429", "RESOURCE_EXHAUSTED"}

CredentialSignal(msg) == \E i \in 1..Len(msg) : msg[i] \in {"401", "403"}

TimeoutSignal(msg) == \E i \in 1..Len(msg) : msg[i] \in {"timeout", "Timeout"}

\* The retrying client has returned.
RetryReturned == mode = "ocr" /\ pc = "done" /\ retry_ret.set

\* The calls before the last one all failed with a rate-limit signal.
EarlierCallsRateLimited ==
    \A i \in 1..(Len(CallsOf(log)) - 1) :
        ~CallsOf(log)[i].ok /\ RateLimitSignal(CallsOf(log)[i].err.msg)

LastCall == CallsOf(log)[Len(CallsOf(log))]

\* C1: when the remote call fails with a rate-limit signal exactly N times and
\* then succeeds (N in 0..3), call_gemini_with_retry returns (True, response)
\* after N+1 attempts and N sleeps; the k-th sleep lasts 2*2^k seconds and lies
\* between the k-th failed attempt and the next attempt; the sleeps add up to
\* 2+4+...+2^N seconds.
C1_RetryThenSuccess ==
    (RetryReturned /\ LastCall.ok /\ EarlierCallsRateLimited) =>
        LET N == Len(CallsOf(log)) - 1
        IN /\ N \in 0..3
           /\ retry_ret = RetrySuccess(response)
           /\ Len(SleepsOf(log)) = N
           /\ Len(log) = 2 * N + 1
           /\ \A k \in 0..(N - 1) :
                /\ IsCall(log[2 * k + 1])
                /\ IsSleep(log[2 * k + 2])
                /\ log[2 * k + 2].secs = 2 * (2 ^ k)
           /\ IsCall(log[2 * N + 1])
           /\ TotalSleep(log) = 2 ^ (N + 1) - 2

\* Three rate-limit failures, three sleeps, then the successful fourth call.
C1_Witness ==
    /\ RetryReturned /\ LastCall.ok /\ EarlierCallsRateLimited
    /\ Len(CallsOf(log)) = 4
    /\ retry_ret.success

\* C2: when every attempt fails with a rate-limit signal, call_gemini_with_retry
\* returns (False, error) after exactly 4 attempts and 3 sleeps of 2, 4 and 8
\* seconds; there is never a 5th attempt, no sleep follows the 4th failure, and
\* the returned error is the error of the last attempt.
C2_RetryExhausted ==
    /\ mode = "ocr" => Len(CallsOf(log)) <= 4
    /\ (RetryReturned /\ ~LastCall.ok /\ RateLimitSignal(LastCall.err.msg)
          /\ EarlierCallsRateLimited) =>
            /\ Len(CallsOf(log)) = 4
            /\ [i \in 1..Len(SleepsOf(log)) |-> SleepsOf(log)[i].secs] = <<2, 4, 8>>
            /\ IsCall(log[Len(log)])
            /\ retry_ret = RetryFailure(LastCall.err)

C2_Witness ==
    /\ RetryReturned /\ ~LastCall.ok /\ RateLimitSignal(LastCall.err.msg)
    /\ EarlierCallsRateLimited
    /\ Len(CallsOf(log)) = 4
    /\ ~retry_ret.success

\* C3: an attempt that fails with an error that is not a rate-limit failure
\* ends call_gemini_with_retry at once with (False, that error): it is the last
\* event of the invocation, whatever the attempt index and however many
\* rate-limit failures came before it; a timeout is never retried.
C3_OtherErrorsReturnAtOnce ==
    mode = "ocr" =>
        \A i \in 1..Len(log) :
            (IsCall(log[i]) /\ ~log[i].ok /\ ~RateLimitSignal(log[i].err.msg)) =>
                /\ i = Len(log)
                /\ pc = "done"
                /\ retry_ret = RetryFailure(log[i].err)

\* Two rate-limit failures, then a timeout that ends the invocation.
C3_Witness ==
    /\ RetryReturned
    /\ Len(CallsOf(log)) = 3
    /\ EarlierCallsRateLimited
    /\ ~LastCall.ok
    /\ TimeoutSignal(LastCall.err.msg)
    /\ ~RateLimitSignal(LastCall.err.msg)

\* C4: business-card mode reaches the remote endpoint through the retrying
\* client: a rate-limit failure is reported to the caller only after the 3
\* retries (4 attempts) are used up.
C4_CardModeRetries ==
    (mode = "card" /\ pc = "done" /\ ~LastCall.ok
        /\ RateLimitSignal(LastCall.err.msg)) =>
            /\ Len(CallsOf(log)) = max_retries + 1
            /\ Len(SleepsOf(log)) = max_retries

\* C5: parse_business_card_response never raises and returns a record with
\* all 11 schema fields, whatever the response text.
C5_ParserNeverRaises ==
    parsed.set =>
        /\ ~parsed.raised
        /\ \A i \in 1..Len(FieldOrder) : FieldOrder[i] \in DictKeys(parsed.data)

\* The record with every scalar field null and phone and email empty.
IsEmptyRecord(d) ==
    /\ Len(d) = 11
    /\ \A i \in 1..Len(d) :
        /\ d[i].k = FieldOrder[i]
        /\ d[i].v = IF d[i].k \in {"phone", "email"} THEN List(<<>>) ELSE Null

HasText == ~response.none /\ response.text # <<>>

CardReturned == mode = "card" /\ pc = "done" /\ log[Len(log)].ok

\* C6: for a response text whose extracted substring is not parseable JSON the
\* parser returns the empty record, the validator reports it unusable and
\* process_business_card returns the 'could not extract' failure.
C6_FailSoft ==
    (CardReturned /\ HasText /\ ~json_loads(ExtractJsonText(response.text)).ok) =>
        /\ parsed.set
        /\ ~parsed.raised
        /\ IsEmptyRecord(parsed.data)
        /\ ~validate_business_card_data(parsed.data)
        /\ ret = RetFail(Msg("card_no_extract"))

\* Prose in place of JSON.
C6_Witness ==
    /\ CardReturned
    /\ response = Response(<<"p", " ", "p">>)
    /\ ret = RetFail(Msg("card_no_extract"))

\* The validator's rule as specified: some field is a non-empty string or a
\* sequence with a non-empty element.
UsableAsSpecified(d) ==
    \E i \in 1..Len(d) :
        \/ d[i].v.t = "str" /\ d[i].v.s # <<>>
        \/ d[i].v.t = "list" /\ \E j \in 1..Len(d[i].v.l) : d[i].v.l[j] # <<>>

\* C7: validate_business_card_data(record) is true iff some field is a
\* non-empty string or a sequence with at least one non-empty element.
C7_ValidatorRule ==
    (CardReturned /\ parsed.set /\ ~parsed.raised) =>
        /\ validate_business_card_data(parsed.data) <=> UsableAsSpecified(parsed.data)
        /\ ret.success <=> UsableAsSpecified(parsed.data)

\* A text from which the fences are to be stripped: prose, a fence-open marker
\* (json-tagged or generic), a JSON object text, the closing fence, prose.
IsProse(s) == \A i \in 1..Len(s) : s[i] \in {"p", " "}

FenceOpenAt(t) == Find(t, <<"T">>, 0)

FenceCloseAt(t) ==
    CHOOSE j \in 0..Len(t) : MatchAt(t, <<"T">>, j)
                             /\ \A k \in (j + 1)..Len(t) : ~MatchAt(t, <<"T">>, k)

FenceTagged(t) == MatchAt(t, <<"T", "json">>, FenceOpenAt(t))

\* The wrapped text J: what lies between the opening fence (and its tag) and
\* the closing fence, without the surrounding whitespace.
WrappedBody(t) ==
    LET from == FenceOpenAt(t) + (IF FenceTagged(t) THEN 2 ELSE 1)
    IN IF from >= FenceCloseAt(t) THEN <<>>
       ELSE Strip(SubSeq(t, from + 1, FenceCloseAt(t)))

IsWrappedObject(t) ==
    /\ FenceOpenAt(t) # -1
    /\ FenceCloseAt(t) > FenceOpenAt(t)
    /\ IsProse(SubSeq(t, 1, FenceOpenAt(t)))
    /\ IsProse(SubSeq(t, FenceCloseAt(t) + 2, Len(t)))
    /\ WrappedBody(t) # <<>>
    /\ WrappedBody(t)[1] = "{"
    /\ json_loads(WrappedBody(t)).ok

\* C8: for every JSON object text J, the parser applied to J in a json-tagged
\* or generic fence, with or without prose around it, returns the same record
\* as the parser applied to J.
C8_FenceStripping ==
    (CardReturned /\ HasText /\ IsWrappedObject(response.text)) =>
        parsed = Parsed(parse_business_card_response(WrappedBody(response.text)))

\* The same for the object texts that contain no fence marker themselves.
FenceStrippingOfPlainObjects ==
    (CardReturned /\ HasText /\ IsWrappedObject(response.text)
        /\ ~Contains(WrappedBody(response.text), <<"T">>)) =>
        /\ ExtractJsonText(response.text) = WrappedBody(response.text)
        /\ parsed = Parsed(parse_business_card_response(WrappedBody(response.text)))

\* The object that json.loads reads from the response text.
ParsedObject == json_loads(ExtractJsonText(response.text))

\* C9: when the response text parses to a JSON object, the returned record
\* keeps every key of the object with its value (an explicit null stays null),
\* in the object's order, and has the schema default (null, or the empty
\* sequence for phone and email) for each of the 11 fields absent from it.
C9_DefaultFilling ==
    (CardReturned /\ HasText /\ ParsedObject.ok /\ ParsedObject.t = "dict") =>
        /\ parsed.set /\ ~parsed.raised
        /\ Len(parsed.data) >= Len(ParsedObject.o)
        /\ SubSeq(parsed.data, 1, Len(ParsedObject.o)) = ParsedObject.o
        /\ DictKeys(parsed.data)
             = DictKeys(ParsedObject.o) \cup {FieldOrder[i] : i \in 1..11}
        /\ Cardinality(DictKeys(parsed.data)) = Len(parsed.data)
        /\ \A i \in 1..11 :
             ~DictHas(ParsedObject.o, FieldOrder[i]) =>
                DictGet(parsed.data, FieldOrder[i])
                  = IF FieldOrder[i] \in {"phone", "email"} THEN List(<<>>) ELSE Null

\* An object with only name and email: two values kept, nine defaults.
C9_Witness ==
    /\ CardReturned
    /\ response = Response(<<"{", "m_name", "m_email", "}">>)
    /\ DictGet(parsed.data, "name") = Str(<<"X">>)
    /\ DictGet(parsed.data, "email") = List(<< <<"a">> >>)
    /\ DictGet(parsed.data, "phone") = List(<<>>)
    /\ DictGet(parsed.data, "company") = Null
    /\ Len(parsed.data) = 11

\* An explicit null for a multi-valued field stays null.
ExplicitNullKept ==
    (CardReturned /\ response = Response(<<"{", "m_name", "m_phone_null", "}">>)) =>
        DictGet(parsed.data, "phone") = Null

\* C10: every failure of the retrying client surfaces from process_ocr as a
\* message of the category of the error: rate limit (429 or RESOURCE_EXHAUSTED)
\* gives a rate-limit or quota message, a credential rejection the invalid-key
\* message, a timeout the timeout message, anything else the generic message
\* with the error text; a rate-limit failure is never reported as a credential
\* or timeout problem.
C10_OcrErrorCategories ==
    (RetryReturned /\ ~retry_ret.success) =>
        LET msg == retry_ret.error.msg
        IN /\ ret.set /\ ~ret.success
           /\ RateLimitSignal(msg) =>
                ret.msg.id \in {"ocr_rate_limit", "ocr_resource_exhausted"}
           /\ (~RateLimitSignal(msg) /\ CredentialSignal(msg)) =>
                ret.msg.id = "ocr_invalid_key"
           /\ (~RateLimitSignal(msg) /\ ~CredentialSignal(msg) /\ TimeoutSignal(msg)) =>
                ret.msg.id = "ocr_timeout"
           /\ (~RateLimitSignal(msg) /\ ~CredentialSignal(msg) /\ ~TimeoutSignal(msg)) =>
                ret.msg = MsgWith("ocr_error", retry_ret.error.type, msg)


\* The messages process_business_card has for the failures of other kinds.
OtherCardMessages ==
    {"card_invalid_key", "card_rate_limit", "card_no_extract",
     "card_no_response"}

CardCallFailed == mode = "card" /\ pc = "done" /\ ~LastCall.ok

\* C11: in business-card mode a failure of each kind has its own message: a
\* credential rejection, a rate limit (429 or RESOURCE_EXHAUSTED), a timeout
\* and an unusable extraction are told apart, and neither a timeout nor a
\* RESOURCE_EXHAUSTED failure is reported with the generic catch-all message.
C11_CardErrorCategories ==
    /\ CardCallFailed =>
        LET m == LastCall.err.msg
        IN /\ CredentialSignal(m) => ret.msg.id = "card_invalid_key"
           /\ (RateLimitSignal(m) /\ ~CredentialSignal(m))
                  => ret.msg.id = "card_rate_limit"
           /\ (TimeoutSignal(m) /\ ~CredentialSignal(m) /\ ~RateLimitSignal(m))
                  => /\ ~ret.success
                     /\ ret.msg.id \notin OtherCardMessages \cup {"card_error"}
    /\ (CardReturned /\ parsed.set /\ ~parsed.raised
           /\ ~validate_business_card_data(parsed.data))
          => ret.msg.id = "card_no_extract"


\* C12: retry state is per invocation.  Whatever the invocations before it
\* did, a call_gemini_with_retry invocation begins at attempt index 0, its
\* k-th sleep is initial_delay * 2^(k-1) (the first one initial_delay), it
\* makes at most max_retries + 1 remote calls and at most max_retries sleeps,
\* and it gives up on a rate-limit error only after all max_retries + 1
\* calls.
C12_RetryStatePerInvocation ==
    mode = "ocr" =>
        /\ Len(CallsOf(log)) <= max_retries + 1
        /\ Len(SleepsOf(log)) <= max_retries
        /\ \A k \in 1..Len(SleepsOf(log)) :
              SleepsOf(log)[k].secs = initial_delay * (2 ^ (k - 1))
        /\ pc = "attempt" => attempt = Len(CallsOf(log))
        /\ pc = "sleep" => attempt + 1 = Len(CallsOf(log))
        /\ (RetryReturned /\ ~retry_ret.success
               /\ RateLimitSignal(LastCall.err.msg))
              => Len(CallsOf(log)) = max_retries + 1

\* an invocation after an exhausted one made all its calls
C12_Witness ==
    /\ prior.set /\ ~prior.success /\ prior.attempt = max_retries
    /\ RetryReturned /\ ~retry_ret.success
    /\ Len(CallsOf(log)) = max_retries + 1
    /\ Len(SleepsOf(log)) = max_retries

\* ------------------------------------------------------------ the exports
\* The lines of a vCard text: what lies between the CRLFs.
VcardLines == SplitOn(vcard_out.text, "CRLF")

\* The kind of a line is its first token, the property name with its type.
LineKind(line) == IF line = <<>> THEN "" ELSE line[1]

PropertyKinds ==
    <<"N:", "FN:", "ORG:", "TITLE:", "TEL;TYPE=WORK:", "TEL;TYPE=CELL:",
      "TEL;TYPE=FAX:", "EMAIL:", "URL:", "ADR;TYPE=WORK:">>

KindRank(kind) == CHOOSE i \in 1..Len(PropertyKinds) : PropertyKinds[i] = kind

IsProperty(line) == \E i \in 1..Len(PropertyKinds) : PropertyKinds[i] = LineKind(line)

LinesOfKind(kind) == SelectSeq(VcardLines, LAMBDA line : LineKind(line) = kind)

\* C13: the vCard envelope.  For every record generate_vcard gives a text
\* whose lines, split on CRLF, begin with BEGIN:VCARD and VERSION:3.0 and end
\* with END:VCARD, with one BEGIN:VCARD and one END:VCARD line, no line break
\* other than CRLF, and the property lines in the order N, FN, ORG, TITLE,
\* TEL;TYPE=WORK, TEL;TYPE=CELL, TEL;TYPE=FAX, EMAIL, URL, ADR.
C13_VcardEnvelope ==
    vcard_out.set =>
        /\ ~vcard_out.raised
        /\ Len(VcardLines) >= 3
        /\ VcardLines[1] = <<"BEGIN:VCARD">>
        /\ VcardLines[2] = <<"VERSION:3.0">>
        /\ VcardLines[Len(VcardLines)] = <<"END:VCARD">>
        /\ Cardinality({i \in 1..Len(VcardLines) :
                           VcardLines[i] = <<"BEGIN:VCARD">>}) = 1
        /\ Cardinality({i \in 1..Len(VcardLines) :
                           VcardLines[i] = <<"END:VCARD">>}) = 1
        /\ \A i \in 1..Len(vcard_out.text) : vcard_out.text[i] \notin {"LF", "CR"}
        /\ \A i \in 3..(Len(VcardLines) - 1) : IsProperty(VcardLines[i])
        /\ \A i, j \in 3..(Len(VcardLines) - 1) :
              i < j => KindRank(LineKind(VcardLines[i]))
                         <= KindRank(LineKind(VcardLines[j]))

\* A field is absent when its key is missing or its value is null, the empty
\* string or the empty sequence; a scalar is populated when it is a string
\* with a character that is not whitespace, or a number.
Field(f) == Get(record, f, Null)

Absent(v) ==
    \/ v.t = "null"
    \/ v.t = "str" /\ v.s = <<>>
    \/ v.t = "list" /\ v.l = <<>>

PopulatedScalar(v) ==
    \/ v.t = "str" /\ Strip(v.s) # <<>>
    \/ v.t = "num"

\* the values of the lines of a kind, in the order of the output
ValuesOfKind(kind) ==
    [i \in 1..Len(LinesOfKind(kind)) |-> Tail(LinesOfKind(kind)[i])]

\* the entries of a multi-valued field: the non-empty elements of the
\* sequence (a single string counts as one entry)
Entries(v) ==
    IF v.t = "list" THEN SelectNonEmpty(v.l)
    ELSE IF PopulatedScalar(v) THEN <<Format(v)>> ELSE <<>>

LinesTrack(f, kind) ==
    /\ Absent(Field(f)) => LinesOfKind(kind) = <<>>
    /\ PopulatedScalar(Field(f)) => Len(LinesOfKind(kind)) = 1

\* C14: the lines of a vCard track the populated fields.  For every record
\* an absent field (missing, null, empty string, empty sequence) gives no
\* line, a populated scalar field gives exactly one line of its kind, and
\* there is one TEL;TYPE=WORK line per phone number and one EMAIL line per
\* email address, in the order of the input sequences.
C14_VcardLinesTrackFields ==
    vcard_out.set =>
        /\ ~vcard_out.raised
        /\ LinesTrack("name", "N:")
        /\ LinesTrack("name", "FN:")
        /\ LinesTrack("title", "TITLE:")
        /\ LinesTrack("mobile", "TEL;TYPE=CELL:")
        /\ LinesTrack("fax", "TEL;TYPE=FAX:")
        /\ LinesTrack("website", "URL:")
        /\ LinesTrack("address", "ADR;TYPE=WORK:")
        /\ (Absent(Field("company")) /\ Absent(Field("department")))
              => LinesOfKind("ORG:") = <<>>
        /\ PopulatedScalar(Field("company")) => Len(LinesOfKind("ORG:")) = 1
        /\ ValuesOfKind("TEL;TYPE=WORK:") = Entries(Field("phone"))
        /\ ValuesOfKind("EMAIL:") = Entries(Field("email"))

\* the text of a scalar, empty when it is absent
TextOf(v) == IF PopulatedScalar(v) THEN Format(v) ELSE <<>>

\* C15: the organization line.  For every record of the parser or of the
\* edit form generate_vcard returns a vCard with exactly one ORG line,
\* ORG:company;department (ORG:company when the department is absent), when
\* company or department is populated, and with no ORG line when both are
\* absent; a populated department with a null company is no exception.
C15_VcardOrgLine ==
    vcard_out.set =>
        /\ ~vcard_out.raised
        /\ IF PopulatedScalar(Field("department"))
           THEN LinesOfKind("ORG:") =
                  << <<"ORG:">> \o TextOf(Field("company")) \o <<";">>
                       \o TextOf(Field("department")) >>
           ELSE IF PopulatedScalar(Field("company"))
           THEN LinesOfKind("ORG:") = << <<"ORG:">> \o TextOf(Field("company")) >>
           ELSE (Absent(Field("company")) /\ Absent(Field("department")))
                   => LinesOfKind("ORG:") = <<>>

\* A CSV text read back: the rows and their cells.  A comma or a CRLF after
\* an even number of quotes is outside every quoted cell: the comma ends a
\* cell, the CRLF a row.  A cell in quotes stands for its inside, a doubled
\* quote for one quote.
QuotesBefore(s, i) == Cardinality({j \in 1..(i - 1) : s[j] = "q"})

Outside(s, i) == QuotesBefore(s, i) % 2 = 0

\* the elements of a set of numbers in increasing order
Ascending(S) ==
    [k \in 1..Cardinality(S) |->
        CHOOSE x \in S : Cardinality({y \in S : y < x}) = k - 1]

\* the pieces of s[a..b] between the positions of cuts
Pieces(s, a, b, cuts) ==
    LET c == Ascending(cuts)
    IN [k \in 1..(Len(c) + 1) |->
           SubSeq(s, IF k = 1 THEN a ELSE c[k - 1] + 1,
                     IF k = Len(c) + 1 THEN b ELSE c[k] - 1)]

Unquote(cell) ==
    IF Len(cell) >= 2 /\ cell[1] = "q" /\ cell[Len(cell)] = "q"
    THEN LET inner == SubSeq(cell, 2, Len(cell) - 1)
             kept == Ascending({i \in 1..Len(inner) :
                                   inner[i] # "q" \/ ~Outside(inner, i)})
         IN [k \in 1..Len(kept) |-> inner[kept[k]]]
    ELSE cell

CsvRows(text) ==
    LET ends == Ascending({i \in 1..Len(text) :
                              text[i] = "CRLF" /\ Outside(text, i)})
        last == IF ends = <<>> THEN 0 ELSE ends[Len(ends)]
        spans == [k \in 1..Len(ends) |->
                     [a |-> IF k = 1 THEN 1 ELSE ends[k - 1] + 1,
                      b |-> ends[k] - 1]]
                 \o (IF last < Len(text)
                     THEN <<[a |-> last + 1, b |-> Len(text)]>> ELSE <<>>)
    IN [k \in 1..Len(spans) |->
           LET cells == Pieces(text, spans[k].a, spans[k].b,
                               {i \in spans[k].a..spans[k].b :
                                   text[i] = "," /\ Outside(text, i)})
           IN [c \in 1..Len(cells) |-> Unquote(cells[c])]]

\* the 11 labels of the header row, in schema order
HeaderLabels ==
    << <<"L_name">>, <<"L_name_kana">>, <<"L_company">>, <<"L_department">>,
       <<"L_title">>, <<"L_phone">>, <<"L_mobile">>, <<"L_fax">>, <<"L_email">>,
       <<"L_website">>, <<"L_address">> >>

\* the row a record has when it is exported alone
RowAlone(r) == CsvRows(generate_csv(<<r>>).text)[2]

\* the header row, then one row of 11 cells per record, in input order
HeaderAndRows ==
    /\ CsvRows(csv_out.text) =
          <<HeaderLabels>> \o [i \in 1..Len(data_list) |-> RowAlone(data_list[i])]
    /\ \A i \in 1..Len(data_list) : Len(RowAlone(data_list[i])) = 11

\* C16 as stated: for every list of records, the empty one included, the
\* output of generate_csv is the header row of the 11 labels in schema order
\* followed by one row of 11 cells per record, in input order.
C16_CsvRowStructureAnyList == csv_out.set => HeaderAndRows

\* C16: for every list with at least one record the output of generate_csv
\* is the header row of the 11 labels in schema order followed by one row of
\* 11 cells per record, in input order; for the empty list it is the empty
\* text, without a header row.
C16_CsvRowStructure ==
    csv_out.set =>
        /\ ~csv_out.raised
        /\ data_list # <<>> => HeaderAndRows
        /\ data_list = <<>> => csv_out.text = <<>>

\* two records were exported and a cell needed quotes
C16_Witness ==
    /\ csv_out.set
    /\ Len(data_list) >= 2
    /\ \E i \in 1..Len(csv_out.text) : csv_out.text[i] = "q"

\* the cell of a value when every element of a sequence is joined
CellOfAllElements(v) ==
    IF Absent(v) THEN <<>>
    ELSE IF v.t = "list" THEN JoinWith(v.l, <<",", " ">>)
    ELSE Format(v)

\* the cell of a value when the non-empty elements of a sequence are joined
CellOfNonEmptyElements(v) ==
    IF Absent(v) THEN <<>>
    ELSE IF v.t = "list" THEN JoinWith(SelectNonEmpty(v.l), <<",", " ">>)
    ELSE Format(v)

\* C17 as stated: the cell of a field is its string value if it is a
\* populated scalar, its elements joined with ", " if it is a sequence, and
\* empty if the field is missing, null, an empty string or an empty sequence;
\* keys outside the schema have no cell.
C17_CsvCellsAllElements ==
    (csv_out.set /\ data_list # <<>>) =>
        CsvRows(csv_out.text) =
           <<HeaderLabels>>
           \o [i \in 1..Len(data_list) |->
                 [j \in 1..Len(FieldOrder) |->
                     CellOfAllElements(Get(data_list[i], FieldOrder[j], Null))]]

\* C17: the cell of a field is its string value if it is a populated scalar,
\* its non-empty elements joined with ", " if it is a sequence, and empty if
\* the field is missing, null, an empty string or an empty sequence; keys
\* outside the schema have no cell.
C17_CsvCellRendering ==
    (csv_out.set /\ data_list # <<>>) =>
        CsvRows(csv_out.text) =
           <<HeaderLabels>>
           \o [i \in 1..Len(data_list) |->
                 [j \in 1..Len(FieldOrder) |->
                     CellOfNonEmptyElements(Get(data_list[i], FieldOrder[j], Null))]]

\* a record with two phone numbers and a key outside the schema was exported
C17_Witness ==
    /\ csv_out.set
    /\ data_list # <<>>
    /\ Get(data_list[1], "phone", Null) = List(<< <<"1">>, <<"2">> >>)
    /\ DictHas(data_list[1], "note")
    /\ CsvRows(csv_out.text)[2][6] = <<"1", ",", " ", "2">>

\* C18: the JSON round trip.  For every record of the parser, generate_json
\* gives a text that json.loads reads back as a dict equal to the record:
\* the same keys in the same order with the same values, nulls and empty
\* sequences included.
C18_JsonRoundTrip ==
    json_out.set =>
        /\ ~json_out.raised
        /\ json_loads(json_out.text) = JsonObject(record)

\* a record with a null, an empty sequence, a sequence of two and a string
\* with a quote went through the round trip
C18_Witness ==
    /\ json_out.set
    /\ Field("name") = Null
    /\ Field("email") = List(<<>>)
    /\ Field("phone") = List(<< <<"1">>, <<"2">> >>)
    /\ Field("title") = Str(<<"q", "z">>)


\* ------------------------------------------------------------ the prompt
\* The clauses the options ask for, empty when an option asks for none.
LanguageClause == LANGUAGE_OPTIONS(options.language)

FormatClause ==
    IF OUTPUT_FORMAT_OPTIONS(options.output_format) = "markdown" THEN <<"MD">>
    ELSE IF OUTPUT_FORMAT_OPTIONS(options.output_format) = "table" THEN <<"TBL">>
    ELSE <<>>

SummaryClause ==
    IF DETAIL_OPTIONS(options.detail) = "summary" THEN <<"SUM">> ELSE <<>>

\* clause a is in the prompt and, if clause b is asked for, before it
Precedes(a, b) ==
    (a # <<>> /\ b # <<>>) =>
        /\ Contains(prompt, a)
        /\ Contains(prompt, b)
        /\ Find(prompt, a, 0) < Find(prompt, b, 0)

\* the sentences of the prompt without what separates them
Sentences == SelectSeq(prompt, LAMBDA c : c \notin {"sep", "LF"})

\* C19 as stated: the prompt holds the base instruction and is the
\* concatenation, in this order, of the base instruction, the language
\* clause, the format clause and the summary clause, those that the options
\* ask for; no clause comes before one that precedes it in
\* base, language, format, detail.
C19_ClauseOrderBaseFirst ==
    prompt # <<>> =>
        /\ Contains(prompt, base_instruction)
        /\ Sentences = base_instruction \o LanguageClause \o FormatClause
                          \o SummaryClause
        /\ Precedes(base_instruction, LanguageClause)
        /\ Precedes(LanguageClause, FormatClause)
        /\ Precedes(FormatClause, SummaryClause)

\* C19: the prompt holds the base instruction and is the concatenation, in
\* this order, of the language clause, the base instruction, the format
\* clause and the summary clause, those that the options ask for; no clause
\* comes before one that precedes it in language, base, format, detail.
C19_ClauseOrder ==
    prompt # <<>> =>
        /\ Contains(prompt, base_instruction)
        /\ Sentences = LanguageClause \o base_instruction \o FormatClause
                          \o SummaryClause
        /\ prompt = (IF LanguageClause # <<>> THEN LanguageClause \o <<"sep">>
                     ELSE <<>>)
                    \o base_instruction
                    \o (IF FormatClause # <<>> THEN <<"LF">> \o FormatClause
                        ELSE <<>>)
                    \o (IF SummaryClause # <<>> THEN <<"LF">> \o SummaryClause
                        ELSE <<>>)
        /\ Precedes(LanguageClause, base_instruction)
        /\ Precedes(base_instruction, FormatClause)
        /\ Precedes(base_instruction, SummaryClause)
        /\ Precedes(FormatClause, SummaryClause)

\* a prompt with all four clauses was built
C19_Witness ==
    /\ prompt # <<>>
    /\ LanguageClause # <<>>
    /\ FormatClause # <<>>
    /\ SummaryClause # <<>>


\* ------------------------------------------------------------ the images
WithinBound(img) == img.w <= max_dimension /\ img.h <= max_dimension

\* the sides of img are those of orig scaled by one factor, up to the
\* rounding of a pixel
SameAspect(img, orig) ==
    LET d == img.w * orig.h - img.h * orig.w
        m == IF orig.w > orig.h THEN orig.w ELSE orig.h
    IN d < m /\ -d < m

\* C20: every image that reaches the inference call, uploaded or taken with
\* the camera, is at most 1920 pixels wide and high; an image that was
\* within the bound has its original size and one that was resized has its
\* aspect ratio.
C20_ImagesDownscaled ==
    ipc = "sent" =>
        /\ WithinBound(image)
        /\ WithinBound(raw) => image = raw
        /\ SameAspect(image, raw)


\* ------------------------------------------------- the result of process_ocr
\* process_ocr has returned.
OcrReturned == mode = "ocr" /\ pc = "done" /\ ret.set

\* The remote call was made and its last attempt returned a response.
RemoteCallSucceeded == CallsOf(log) # <<>> /\ LastCall.ok

\* C21: process_ocr returns (True, text) if and only if the API key is
\* non-empty and the remote call, after at most 3 retries, succeeded with a
\* response whose text is non-empty, and the text returned is that text; with
\* an empty API key it returns a failure without making any remote call; with
\* a successful call whose text is empty or missing it returns the failure
\* message and never (True, empty text).
C21_OcrSuccessIff ==
    OcrReturned =>
        /\ ret.success <=>
              /\ api_key # <<>>
              /\ RemoteCallSucceeded
              /\ Len(CallsOf(log)) <= max_retries + 1
              /\ HasText
        /\ ret.success => ret.text = response.text /\ ret.text # <<>>
        /\ api_key = <<>> =>
              /\ ~ret.success
              /\ ret.msg = Msg("ocr_no_key")
              /\ log = <<>>
        /\ (RemoteCallSucceeded /\ ~HasText) =>
              /\ ~ret.success
              /\ ret.msg = Msg("ocr_no_text")

\* The fourth call, after three retries, returned a response with an empty
\* text, and process_ocr returned the failure message.
C21_Witness ==
    /\ OcrReturned
    /\ api_key # <<>>
    /\ Len(CallsOf(log)) = max_retries + 1
    /\ RemoteCallSucceeded
    /\ ~response.none /\ response.text = <<>>
    /\ ~ret.success

\* (True, text) after three retries.
OcrSucceededAfterRetries ==
    /\ OcrReturned /\ ret.success
    /\ Len(CallsOf(log)) = max_retries + 1
    /\ ret.text = <<"p", " ", "p">>

\* The failure for the empty key.
OcrRefusedWithoutKey == OcrReturned /\ api_key = <<>> /\ log = <<>>

====
